---- MODULE Spec2Model ----
(***************************************************************************)
(* A model of extras/rawhid/hid_LINUX.c: the registry of opened raw-HID    *)
(* interfaces (first_hid/last_hid), the discovery pass rawhid_open, the    *)
(* transport calls rawhid_recv/rawhid_send, rawhid_close, rawhid_scan and  *)
(* the report-descriptor item decoder hid_parse_item.                      *)
(*                                                                         *)
(* The USB stack (libusb) is the environment: which devices it lists and   *)
(* what each of its calls returns is chosen nondeterministically from the  *)
(* small sets below.  The model keeps the stack's own view of the world    *)
(* (usb.open, usb.claimed), and the list of stack calls made by the last   *)
(* step (usb.calls), which is what a mock of the stack would record.       *)
(*                                                                         *)
(* Spec is the library as its callers drive it.  SpecParse runs the item   *)
(* decoder and the descriptor scanning loop on their own, over buffers,    *)
(* cursors and end bounds drawn from bounded sets.                         *)
(***************************************************************************)
EXTENDS Integers, Sequences, FiniteSets, TLC

VARIABLES
    hid_list,   \* the linked list first_hid .. last_hid, as a sequence of hid_t
    usb,        \* the USB stack: [open, claimed, misuse, calls]
    pc,         \* "idle", "dev", "iface", "alt" (inside rawhid_open), "returned", "crashed"
    fr,         \* the locals of rawhid_open while a pass is running
    lastOp,     \* the public call in progress or just returned, with its arguments
    ret,        \* the value that call returned
    cand,       \* the alternate setting examined by the last step of the k loop
    scan        \* a run of the item decoder on its own: one call, or the scanning loop

vars == <<hid_list, usb, pc, fr, lastOp, ret, cand, scan>>

----------------------------------------------------------------------------
(* Bounds of the model *)

\* longest device list the stack returns
MaxDevs == 2
\* largest "max" passed to rawhid_open
MaxArg == 2
\* largest index passed to rawhid_recv / rawhid_send / rawhid_close
MaxNum == 2
\* largest byte count a transfer reports
MaxXfer == 1

----------------------------------------------------------------------------
(* Constants of libusb used by the code *)

NULL == 0
LIBUSB_CLASS_HID == 3
LIBUSB_ENDPOINT_IN == 128
LIBUSB_ERROR_TIMEOUT == -7
LIBUSB_ERROR_IO == -1
\* LIBUSB_REQUEST_TYPE_CLASS | LIBUSB_RECIPIENT_INTERFACE | LIBUSB_ENDPOINT_OUT
REQTYPE_CLASS_INTERFACE_OUT == 33
SET_REPORT == 9
REPORT_TYPE_OUTPUT == 512
WILDCARD == -1

----------------------------------------------------------------------------
(* hid_parse_item: decode one report-descriptor item.  buf is the byte     *)
(* sequence, p the zero-based cursor, end the exclusive end bound.  The    *)
(* result is [tag, val, p]: tag < 0 on failure, p the new cursor.          *)

Rd(buf, p) == buf[p + 1]

table == <<0, 1, 2, 4>>

\* A uint32_t is kept as its 32-bit pattern read in two's complement, so that
\* every value fits TLC's integers: patterns from 2^31 on are negative.
\* The code only compares val with 0 and with positive filters, which agree
\* on both readings.
ShortVal(buf, p, sz) ==
    CASE sz = 3 -> Rd(buf, p + 1) + Rd(buf, p + 2) * 256 + Rd(buf, p + 3) * 65536
                   + (IF Rd(buf, p + 4) >= 128 THEN Rd(buf, p + 4) - 256
                                               ELSE Rd(buf, p + 4)) * 16777216
      [] sz = 2 -> Rd(buf, p + 1) + Rd(buf, p + 2) * 256
      [] sz = 1 -> Rd(buf, p + 1)
      [] sz = 0 -> 0

\* line 366: len of a long item, from its size byte
long_len(b1) == b1 + 5

\* line 379 moving over len bytes only
item_advance_payload_only(len) == len

\* line 379: the cursor moves over the prefix byte and len more bytes
item_advance(len) == len + 1

\* line 369 testing the prefix byte's successor only
short_past_end_prefix_only(p, len, end) == p + 1 >= end

\* line 369: the bounds test of a short item
short_past_end(p, len, end) == p + len + 1 >= end

hid_parse_item(buf, p, end) ==
    IF p >= end THEN [tag |-> -1, val |-> 0, p |-> p]
    ELSE IF Rd(buf, p) = 254
    THEN IF p + 5 >= end \/ p + Rd(buf, p + 1) >= end
         THEN [tag |-> -1, val |-> 0, p |-> p]
         ELSE [tag |-> Rd(buf, p + 2), val |-> 0,
               p |-> p + item_advance(long_len(Rd(buf, p + 1)))]
    ELSE LET b   == Rd(buf, p)
             len == table[(b % 4) + 1]
         IN  IF short_past_end(p, len, end)
             THEN [tag |-> -1, val |-> 0, p |-> p]
             ELSE [tag |-> b - (b % 4), val |-> ShortVal(buf, p, b % 4),
                   p |-> p + item_advance(len)]

(* The offsets of buf that one call of hid_parse_item dereferences, in the *)
(* order of the code: p[0] after the first test (358-359), p[1] in the     *)
(* second half of the long-item test, which C evaluates only when the      *)
(* first half is false (361), p[2] and p[1] again on success (362-366),    *)
(* and the payload bytes of a short item after its test (368-376).         *)
hid_parse_reads(buf, p, end) ==
    IF p >= end THEN {}
    ELSE IF Rd(buf, p) = 254
    THEN {p} \cup (IF p + 5 >= end THEN {}
                  ELSE {p + 1} \cup (IF p + Rd(buf, p + 1) >= end THEN {} ELSE {p + 2}))
    ELSE LET len == table[(Rd(buf, p) % 4) + 1]
         IN  {p} \cup (IF short_past_end(p, len, end) THEN {} ELSE (p + 1)..(p + len))

(* One iteration of the scanning loop of rawhid_open (lines 290-295): the  *)
(* call, the two assignments and the two breaks.                           *)
ParseIter(buf, len, p, page, usage) ==
    LET it     == hid_parse_item(buf, p, len)
        page2  == IF it.tag = 4 THEN it.val ELSE page
        usage2 == IF it.tag = 8 THEN it.val ELSE usage
    IN  IF it.tag < 0
        THEN [brk |-> TRUE, tag |-> it.tag, p |-> it.p,
              parsed_usage_page |-> page, parsed_usage |-> usage]
        ELSE [brk |-> page2 # 0 /\ usage2 # 0, tag |-> it.tag, p |-> it.p,
              parsed_usage_page |-> page2, parsed_usage |-> usage2]

(* The scanning loop of rawhid_open over one fetched descriptor, started   *)
(* with the current values of parsed_usage_page and parsed_usage.          *)
RECURSIVE ParseLoop(_, _, _, _, _)
ParseLoop(buf, len, p, page, usage) ==
    IF ~(p < len) THEN [parsed_usage_page |-> page, parsed_usage |-> usage]
    ELSE LET s == ParseIter(buf, len, p, page, usage)
         IN  IF s.brk
             THEN [parsed_usage_page |-> s.parsed_usage_page, parsed_usage |-> s.parsed_usage]
             ELSE ParseLoop(buf, len, s.p, s.parsed_usage_page, s.parsed_usage)

----------------------------------------------------------------------------
(* The USB stack.  A handle is a positive integer; NULL is 0.              *)

Log(u, c) == [u EXCEPT !.calls = Append(@, c)]

\* libusb_open: the stack hands out a handle that is not open
FreshHandle(u) == CHOOSE h \in 1..(Cardinality(u.open) + 1) : h \notin u.open

libusb_open(u, d) ==
    LET h == FreshHandle(u)
    IN  Log([u EXCEPT !.open = @ \cup {h}], [call |-> "open", dev |-> d, handle |-> h])

libusb_open_failed(u, d) == Log(u, [call |-> "open", dev |-> d, handle |-> NULL])

libusb_detach_kernel_driver(u, h, j, ok) ==
    Log(u, [call |-> "detach", handle |-> h, iface |-> j, ok |-> ok])

libusb_claim_interface(u, h, j, ok) ==
    Log([u EXCEPT !.claimed = IF ok THEN @ \cup {<<h, j>>} ELSE @],
        [call |-> "claim", handle |-> h, iface |-> j, ok |-> ok])

libusb_release_interface(u, h, j) ==
    Log([u EXCEPT !.claimed = @ \ {<<h, j>>},
                  !.misuse  = @ \/ (<<h, j>> \notin u.claimed)],
        [call |-> "release", handle |-> h, iface |-> j])

libusb_close(u, h) ==
    Log([u EXCEPT !.open    = @ \ {h},
                  !.claimed = {c \in @ : c[1] # h},
                  !.misuse  = @ \/ (h \notin u.open)],
        [call |-> "close", handle |-> h])

get_report_descriptor(u, h, j, len) ==
    Log(u, [call |-> "get_report", handle |-> h, iface |-> j, len |-> len])

libusb_interrupt_transfer(u, h, ep, r, transferred) ==
    Log(u, [call |-> "interrupt", handle |-> h, ep |-> ep, r |-> r,
            transferred |-> transferred])

libusb_control_transfer(u, h, reqtype, req, value, index, r) ==
    Log(u, [call |-> "control", handle |-> h, reqtype |-> reqtype, req |-> req,
            value |-> value, index |-> index, r |-> r])

----------------------------------------------------------------------------
(* The registry.  A pointer to a list node is its 1-based position; NULL   *)
(* is 0.  A "world" w is [hid_list, usb], threaded through the calls.      *)

first_hid(list) == IF Len(list) > 0 THEN 1 ELSE NULL
next_hid(list, p) == IF p < Len(list) THEN p + 1 ELSE NULL

add_hid(list, h) == Append(list, h)

RECURSIVE get_hid_loop(_, _, _)
get_hid_loop(list, p, num) ==
    IF p # NULL /\ num > 0 THEN get_hid_loop(list, next_hid(list, p), num - 1) ELSE p

get_hid(list, num) == get_hid_loop(list, first_hid(list), num)

\* hid_close as it would be without line 429
hid_close_keeps_handle(w, p) ==
    LET hid == w.hid_list[p]
    IN  IF hid.handle = NULL THEN w
        ELSE [hid_list |-> w.hid_list,
              usb      |-> libusb_close(
                               libusb_release_interface(w.usb, hid.handle, hid.iface),
                               hid.handle)]

hid_close(w, p) ==
    LET hid == w.hid_list[p]
    IN  IF hid.handle = NULL THEN w
        ELSE [hid_list |-> [w.hid_list EXCEPT ![p].handle = NULL],
              usb      |-> libusb_close(
                               libusb_release_interface(w.usb, hid.handle, hid.iface),
                               hid.handle)]

RECURSIVE close_all(_, _)
close_all(w, p) ==
    IF p = NULL THEN w ELSE close_all(hid_close(w, p), next_hid(w.hid_list, p))

\* free_all_hid as it would be without the loop of lines 411-413
free_all_hid_leaks(w) == [hid_list |-> <<>>, usb |-> w.usb]

free_all_hid(w) ==
    [hid_list |-> <<>>, usb |-> close_all(w, first_hid(w.hid_list)).usb]

----------------------------------------------------------------------------
(* What the stack can list.  An alternate setting is                       *)
(* [cls, sub, proto, endpoint]; a device is                                *)
(* [idVendor, idProduct, descOK, bNumConfigurations, confOK, interface].   *)

RawAlt(eps) == [cls |-> LIBUSB_CLASS_HID, sub |-> 0, proto |-> 0, endpoint |-> eps]
BootAlt(eps) == [cls |-> LIBUSB_CLASS_HID, sub |-> 1, proto |-> 1, endpoint |-> eps]

\* a composite board: a boot keyboard, a raw-HID interface that lists its OUT
\* endpoint 4 before its IN endpoints 3 and 5, and a raw interface without IN
DevBoard ==
    [idVendor |-> 5824, idProduct |-> 1158, descOK |-> TRUE, bNumConfigurations |-> 1,
     confOK |-> TRUE,
     interface |-> << <<BootAlt(<<129>>)>>, <<RawAlt(<<4, 131, 133>>)>>, <<RawAlt(<<2>>)>> >>]

\* one interface listing two raw-HID alternate settings, IN endpoint 1 only
DevTwoAlt ==
    [idVendor |-> 5824, idProduct |-> 1159, descOK |-> TRUE, bNumConfigurations |-> 1,
     confOK |-> TRUE, interface |-> << <<RawAlt(<<129>>), RawAlt(<<129>>)>> >>]

\* a device without configuration
DevNoConf ==
    [idVendor |-> 1133, idProduct |-> 1158, descOK |-> TRUE, bNumConfigurations |-> 0,
     confOK |-> FALSE, interface |-> <<>>]

\* a device whose device descriptor cannot be read
DevNoDesc ==
    [idVendor |-> 0, idProduct |-> 0, descOK |-> FALSE, bNumConfigurations |-> 0,
     confOK |-> FALSE, interface |-> <<>>]

\* a device list names its devices; Device gives what the stack reports of each
DeviceKinds == {"board", "twoalt", "noconf", "nodesc"}

Device(kind) ==
    CASE kind = "board" -> DevBoard
      [] kind = "twoalt" -> DevTwoAlt
      [] kind = "noconf" -> DevNoConf
      [] kind = "nodesc" -> DevNoDesc

\* the device lists tried, the longer ones only under a larger MaxDevs
SomeDeviceLists ==
    {<<>>, <<"board">>, <<"twoalt">>, <<"noconf">>,
     <<"nodesc", "board">>, <<"board", "twoalt">>, <<"twoalt", "board">>,
     <<"noconf", "twoalt">>, <<"twoalt", "twoalt">>,
     <<"board", "nodesc", "twoalt">>, <<"twoalt", "twoalt", "board">>}

DeviceLists == {l \in SomeDeviceLists : Len(l) <= MaxDevs}

\* libusb_get_device_list: a negative count, or a list
ListFailed == [cnt |-> -1, devs |-> <<>>]
Listings == {ListFailed} \cup {[cnt |-> Len(l), devs |-> l] : l \in DeviceLists}

(* Report descriptors a GET_DESCRIPTOR transfer can deliver *)
\* Usage Page 0xFFAB, Usage 0x0200, Collection
ReportRaw == <<6, 171, 255, 10, 0, 2, 161, 1>>
\* Usage Page 1, Usage 2, Collection
ReportMouse == <<5, 1, 9, 2, 161, 1>>
\* Usage Page 1 only
ReportPageOnly == <<5, 1, 161, 1>>
\* Usage Page 0, Usage 0
ReportZero == <<5, 0, 9, 0, 192>>
ReportEmpty == <<>>

Reports == {ReportRaw, ReportMouse, ReportPageOnly, ReportZero, ReportEmpty}

(* What the stack calls made for one candidate return:                     *)
(* [open, active, detach, claim, len, buf, malloc]                         *)
Outcome(open, active, detach, claim, len, buf, malloc) ==
    [open |-> open, active |-> active, detach |-> detach, claim |-> claim,
     len |-> len, buf |-> buf, malloc |-> malloc]

Outcomes ==
    {Outcome(FALSE, FALSE, FALSE, FALSE, -1, <<>>, FALSE),
     Outcome(TRUE, TRUE, FALSE, FALSE, -1, <<>>, FALSE),
     Outcome(TRUE, TRUE, TRUE, FALSE, -1, <<>>, FALSE),
     Outcome(TRUE, FALSE, FALSE, TRUE, -1, <<>>, FALSE),
     Outcome(TRUE, FALSE, FALSE, TRUE, Len(ReportRaw), ReportRaw, FALSE),
     Outcome(TRUE, TRUE, TRUE, TRUE, Len(ReportRaw), ReportRaw, TRUE)}
    \cup {Outcome(TRUE, FALSE, FALSE, TRUE, Len(b), b, TRUE) : b \in Reports}

----------------------------------------------------------------------------
(* rawhid_open, the body of the k loop for one alternate setting           *)

RECURSIVE EndpointLoop(_, _, _, _)
EndpointLoop(eps, e, ep_in, ep_out) ==
    IF ~(e < Len(eps)) THEN [ep_in |-> ep_in, ep_out |-> ep_out]
    ELSE LET addr == eps[e + 1]
         IN  IF (addr \div LIBUSB_ENDPOINT_IN) % 2 = 1
             THEN EndpointLoop(eps, e + 1, IF ep_in = 0 THEN addr % 128 ELSE ep_in, ep_out)
             ELSE EndpointLoop(eps, e + 1, ep_in, IF ep_out = 0 THEN addr ELSE ep_out)

IsRawHid(alt) == alt.cls = LIBUSB_CLASS_HID /\ alt.sub = 0 /\ alt.proto = 0

\* lines 227-246: the checks made before the device is opened
Qualifies(alt) == IsRawHid(alt) /\ EndpointLoop(alt.endpoint, 0, 0, 0).ep_in # 0

\* lines 298-300: the usage test
UsageRejected(page, usage, usage_page, usage_arg) ==
    \/ page = 0
    \/ usage = 0
    \/ (usage_page > 0 /\ page # usage_page)
    \/ (usage_arg > 0 /\ usage # usage_arg)

NoCand == [seen |-> FALSE]

\* no decoder run is being observed
NoScan == [st |-> "none"]

\* lines 281-282 without line 282
release_and_close_leaks(u, h, j) == libusb_release_interface(u, h, j)

\* lines 281-282, 301-302 and 309-310: how a claimed candidate is given up
release_and_close(u, h, j) == libusb_close(libusb_release_interface(u, h, j), h)

(* The result of one candidate: the new world, the new locals, and the     *)
(* record of what happened to it.                                          *)
Candidate(w, f, a, oc) ==
    LET alt  == Device(f.devs[f.i + 1]).interface[f.j + 1][f.k + 1]
        eps  == EndpointLoop(alt.endpoint, 0, 0, 0)
        u0   == [w.usb EXCEPT !.calls = <<>>]
        u1   == libusb_open(u0, f.i)
        h    == FreshHandle(u0)
        u2   == IF oc.active THEN libusb_detach_kernel_driver(u1, h, f.j, oc.detach) ELSE u1
        u3   == libusb_claim_interface(u2, h, f.j, oc.claim)
        u4   == get_report_descriptor(u3, h, f.j, oc.len)
        undo == release_and_close(u4, h, f.j)
        ps   == ParseLoop(oc.buf, oc.len, 0, f.parsed_usage_page, f.parsed_usage)
        f2   == [f EXCEPT !.parsed_usage_page = ps.parsed_usage_page,
                          !.parsed_usage = ps.parsed_usage]
        hid  == [handle |-> h, open |-> 1, iface |-> f.j,
                 ep_in |-> eps.ep_in, ep_out |-> eps.ep_out]
        seen(buf, committed) ==
            [seen |-> TRUE, dev |-> f.i, iface |-> f.j, alt |-> f.k,
             fetched |-> buf # <<-1>>, buf |-> IF buf = <<-1>> THEN <<>> ELSE buf,
             malloc |-> oc.malloc, committed |-> committed]
        out(usb2, list2, f3, c) == [w |-> [hid_list |-> list2, usb |-> usb2], f |-> f3, cand |-> c]
    IN  IF ~oc.open
        THEN out(libusb_open_failed(u0, f.i), w.hid_list, f, seen(<<-1>>, FALSE))
        ELSE IF oc.active /\ ~oc.detach
        THEN out(libusb_close(u2, h), w.hid_list, f, seen(<<-1>>, FALSE))
        ELSE IF ~oc.claim
        THEN out(libusb_close(u3, h), w.hid_list, f, seen(<<-1>>, FALSE))
        ELSE IF oc.len < 0
        THEN out(undo, w.hid_list, f, seen(<<-1>>, FALSE))
        ELSE IF UsageRejected(ps.parsed_usage_page, ps.parsed_usage, a.usage_page, a.usage)
        THEN out(undo, w.hid_list, f2, seen(oc.buf, FALSE))
        ELSE IF ~oc.malloc
        THEN out(undo, w.hid_list, f2, seen(oc.buf, FALSE))
        ELSE out(u4, add_hid(w.hid_list, hid), [f2 EXCEPT !.count = @ + 1, !.owners = Append(@, f.i)],
                 seen(oc.buf, TRUE))

----------------------------------------------------------------------------
(* rawhid_scan: the counting loop                                          *)

\* line 157 without its test
ScanCountsAll(desc) == TRUE

\* line 157: a device counts when it reports at least one configuration
ScanCounts(desc) == desc.bNumConfigurations > 0

RECURSIVE ScanLoop(_, _, _, _, _)
ScanLoop(devs, i, count, vid, pid) ==
    IF ~(i < Len(devs)) THEN count
    ELSE LET desc == Device(devs[i + 1])
         IN  IF ~desc.descOK THEN ScanLoop(devs, i + 1, count, vid, pid)
             ELSE IF vid > 0 /\ desc.idVendor # vid THEN ScanLoop(devs, i + 1, count, vid, pid)
             ELSE IF pid > 0 /\ desc.idProduct # pid THEN ScanLoop(devs, i + 1, count, vid, pid)
             ELSE IF ScanCounts(desc) THEN ScanLoop(devs, i + 1, count + 1, vid, pid)
             ELSE ScanLoop(devs, i + 1, count, vid, pid)

----------------------------------------------------------------------------
(* The state machine *)

\* owners[n] is the device (its place in devs) whose handle the n-th entry
\* committed by the pass holds; the caller can still ask the stack for it
\* when the pass has returned
NoFrame == [devs |-> <<>>, i |-> 0, j |-> 0, k |-> 0, count |-> 0,
            parsed_usage_page |-> 0, parsed_usage |-> 0, owners |-> <<>>]

NoOp == [op |-> "none"]

Quiet(u) == [u EXCEPT !.calls = <<>>]

Init ==
    /\ hid_list = <<>>
    /\ usb = [open |-> {}, claimed |-> {}, misuse |-> FALSE, calls |-> <<>>]
    /\ pc = "idle"
    /\ fr = NoFrame
    /\ lastOp = NoOp
    /\ ret = 0
    /\ cand = NoCand
    /\ scan = NoScan

VidArgs == {WILDCARD, 5824}
PidArgs == {WILDCARD, 1158}
PageArgs == {WILDCARD, 65451}
UsageArgs == {WILDCARD, 512}

\* rawhid_open up to the first test of the i loop (lines 197-205)
RawhidOpen(max, vid, pid, usage_page, usage, listing) ==
    /\ pc = "idle"
    /\ UNCHANGED scan
    /\ LET w0 == [hid_list |-> hid_list, usb |-> Quiet(usb)]
           w1 == IF first_hid(hid_list) # NULL THEN free_all_hid(w0) ELSE w0
       IN  /\ hid_list' = w1.hid_list
           /\ usb' = w1.usb
           /\ lastOp' = [op |-> "open", max |-> max, vid |-> vid, pid |-> pid,
                         usage_page |-> usage_page, usage |-> usage,
                         cnt |-> IF max < 1 THEN 0 ELSE listing.cnt]
           /\ cand' = NoCand
           /\ IF max < 1 \/ listing.cnt < 0
              THEN /\ pc' = "returned"
                   /\ ret' = 0
                   /\ fr' = NoFrame
              ELSE /\ pc' = "dev"
                   /\ ret' = 0
                   /\ fr' = [NoFrame EXCEPT !.devs = listing.devs]

\* the i loop: test, device descriptor, vid/pid filter, configuration (205-217)
OpenDevLoop ==
    /\ pc = "dev"
    /\ usb' = Quiet(usb)
    /\ UNCHANGED <<hid_list, lastOp, cand, scan>>
    /\ IF fr.i < Len(fr.devs) /\ fr.count < lastOp.max
       THEN LET desc == Device(fr.devs[fr.i + 1])
            IN  /\ ret' = ret
                /\ IF \/ ~desc.descOK
                      \/ (lastOp.vid > 0 /\ desc.idVendor # lastOp.vid)
                      \/ (lastOp.pid > 0 /\ desc.idProduct # lastOp.pid)
                      \/ ~desc.confOK
                   THEN /\ fr' = [fr EXCEPT !.i = @ + 1]
                        /\ pc' = "dev"
                   ELSE /\ fr' = [fr EXCEPT !.j = 0]
                        /\ pc' = "iface"
       ELSE /\ ret' = fr.count
            /\ fr' = [NoFrame EXCEPT !.owners = fr.owners]
            /\ pc' = "returned"

\* the j loop: test (219), and the end of the i loop body (323)
OpenIfaceLoop ==
    /\ pc = "iface"
    /\ usb' = Quiet(usb)
    /\ UNCHANGED <<hid_list, lastOp, ret, cand, scan>>
    /\ IF fr.j < Len(Device(fr.devs[fr.i + 1]).interface) /\ fr.count < lastOp.max
       THEN /\ fr' = [fr EXCEPT !.k = 0]
            /\ pc' = "alt"
       ELSE /\ fr' = [fr EXCEPT !.i = @ + 1]
            /\ pc' = "dev"

\* the k loop: test and body (221-321)
OpenAltLoop ==
    /\ pc = "alt"
    /\ UNCHANGED <<lastOp, ret, scan>>
    /\ IF fr.k < Len(Device(fr.devs[fr.i + 1]).interface[fr.j + 1])
       THEN LET alt == Device(fr.devs[fr.i + 1]).interface[fr.j + 1][fr.k + 1]
            IN  IF Qualifies(alt)
                THEN \E oc \in Outcomes :
                        LET c == Candidate([hid_list |-> hid_list, usb |-> usb], fr, lastOp, oc)
                        IN  /\ hid_list' = c.w.hid_list
                            /\ usb' = c.w.usb
                            /\ fr' = [c.f EXCEPT !.k = @ + 1]
                            /\ cand' = c.cand
                            /\ pc' = "alt"
                ELSE /\ usb' = Quiet(usb)
                     /\ fr' = [fr EXCEPT !.k = @ + 1]
                     /\ cand' = NoCand
                     /\ pc' = "alt"
                     /\ UNCHANGED hid_list
       ELSE /\ usb' = Quiet(usb)
            /\ fr' = [fr EXCEPT !.j = @ + 1]
            /\ pc' = "iface"
            /\ UNCHANGED <<hid_list, cand>>

\* what an interrupt transfer reports: [r, transferred], or the call never
\* returns (crash), which is what the stack may do when handed a NULL handle
IntrResults ==
    {[r |-> 0, transferred |-> n, crash |-> FALSE] : n \in 0..MaxXfer}
    \cup {[r |-> LIBUSB_ERROR_TIMEOUT, transferred |-> 0, crash |-> FALSE],
          [r |-> LIBUSB_ERROR_IO, transferred |-> 0, crash |-> FALSE],
          [r |-> 0, transferred |-> 0, crash |-> TRUE]}

\* what a control transfer returns: a byte count or a negative status, or crash
CtrlResults ==
    {[r |-> n, crash |-> FALSE] : n \in (0..MaxXfer) \cup {LIBUSB_ERROR_TIMEOUT, LIBUSB_ERROR_IO}}
    \cup {[r |-> 0, crash |-> TRUE]}

\* lines 97-99 without line 98
recv_result_no_timeout(r, transferred) == IF r = 0 THEN transferred ELSE -1

\* lines 97-99: what rawhid_recv makes of the transfer's status
recv_result(r, transferred) ==
    IF r = 0 THEN transferred ELSE IF r = LIBUSB_ERROR_TIMEOUT THEN 0 ELSE -1

\* line 131 returning the status in place of the count
send_result_status(r, transferred) == IF r >= 0 THEN r ELSE -1

\* line 131: what rawhid_send makes of the transfer's status
send_result(r, transferred) == IF r >= 0 THEN transferred ELSE -1

\* a transfer on a handle of the stack returns; on NULL anything may happen
MayCrash(list, hid) == hid # NULL /\ list[hid].open # 0 /\ list[hid].handle = NULL

Nums == (-1)..MaxNum

RawhidRecv(num, res) ==
    /\ pc = "idle"
    /\ lastOp' = [op |-> "recv", num |-> num]
    /\ UNCHANGED <<hid_list, fr, cand, scan>>
    /\ LET hid == get_hid(hid_list, num)
       IN  /\ res.crash => MayCrash(hid_list, hid)
           /\ IF hid = NULL \/ hid_list[hid].open = 0
              THEN /\ usb' = Quiet(usb)
                   /\ ret' = -1
                   /\ pc' = "returned"
              ELSE /\ usb' = libusb_interrupt_transfer(Quiet(usb), hid_list[hid].handle,
                                 hid_list[hid].ep_in + LIBUSB_ENDPOINT_IN, res.r,
                                 res.transferred)
                   /\ ret' = recv_result(res.r, res.transferred)
                   /\ pc' = IF res.crash THEN "crashed" ELSE "returned"

RawhidSend(num, ires, cres) ==
    /\ pc = "idle"
    /\ lastOp' = [op |-> "send", num |-> num]
    /\ UNCHANGED <<hid_list, fr, cand, scan>>
    /\ LET hid == get_hid(hid_list, num)
       IN  /\ (ires.crash \/ cres.crash) => MayCrash(hid_list, hid)
           /\ IF hid = NULL \/ hid_list[hid].open = 0
              THEN /\ usb' = Quiet(usb)
                   /\ ret' = -1
                   /\ pc' = "returned"
              ELSE IF hid_list[hid].ep_out # 0
              THEN /\ usb' = libusb_interrupt_transfer(Quiet(usb), hid_list[hid].handle,
                                 hid_list[hid].ep_out, ires.r, ires.transferred)
                   /\ ret' = send_result(ires.r, ires.transferred)
                   /\ pc' = IF ires.crash THEN "crashed" ELSE "returned"
              ELSE /\ usb' = libusb_control_transfer(Quiet(usb), hid_list[hid].handle,
                                 REQTYPE_CLASS_INTERFACE_OUT, SET_REPORT, REPORT_TYPE_OUTPUT,
                                 hid_list[hid].iface, cres.r)
                   /\ ret' = send_result(cres.r, cres.r)
                   /\ pc' = IF cres.crash THEN "crashed" ELSE "returned"

RawhidClose(num) ==
    /\ pc = "idle"
    /\ lastOp' = [op |-> "close", num |-> num]
    /\ UNCHANGED <<fr, cand, scan>>
    /\ ret' = 0
    /\ pc' = "returned"
    /\ LET hid == get_hid(hid_list, num)
           w0  == [hid_list |-> hid_list, usb |-> Quiet(usb)]
           w1  == IF hid = NULL \/ hid_list[hid].open = 0 THEN w0 ELSE hid_close(w0, hid)
       IN  /\ hid_list' = w1.hid_list
           /\ usb' = w1.usb

RawhidScan(vid, pid, listing) ==
    /\ pc = "idle"
    /\ lastOp' = [op |-> "scan", vid |-> vid, pid |-> pid, listing |-> listing]
    /\ UNCHANGED <<hid_list, fr, cand, scan>>
    /\ usb' = Quiet(usb)
    /\ ret' = IF listing.cnt < 0 THEN 0 ELSE ScanLoop(listing.devs, 0, 0, vid, pid)
    /\ pc' = "returned"

\* the caller has the result and is about to make its next call
Return ==
    /\ pc = "returned"
    /\ pc' = "idle"
    /\ lastOp' = NoOp
    /\ ret' = 0
    /\ usb' = Quiet(usb)
    /\ cand' = NoCand
    /\ fr' = NoFrame
    /\ UNCHANGED <<hid_list, scan>>

Next ==
    \/ \E max \in 0..MaxArg, vid \in VidArgs, pid \in PidArgs,
          usage_page \in PageArgs, usage \in UsageArgs, listing \in Listings :
          RawhidOpen(max, vid, pid, usage_page, usage, listing)
    \/ OpenDevLoop
    \/ OpenIfaceLoop
    \/ OpenAltLoop
    \/ \E num \in Nums, res \in IntrResults : RawhidRecv(num, res)
    \/ \E num \in Nums, ires \in IntrResults, cres \in CtrlResults : RawhidSend(num, ires, cres)
    \/ \E num \in Nums : RawhidClose(num)
    \/ \E vid \in VidArgs \cup {9999}, pid \in PidArgs, listing \in Listings :
          RawhidScan(vid, pid, listing)
    \/ Return

Spec == Init /\ [][Next]_vars

----------------------------------------------------------------------------
(* The item decoder on its own.  A run starts from a buffer, an end bound  *)
(* and a cursor; it is either one call of hid_parse_item at that cursor,   *)
(* or the scanning loop of rawhid_open (lines 286-296), which starts at    *)
(* the first byte with both parsed values 0 and ends at buf + len.         *)

\* most items in a buffer
MaxItems == 3

\* items the buffers are made of: short items of each size, with tag 4
\* (usage page), tag 8 (usage) and other tags, and long items
Items ==
    {<<5, 1>>, <<5, 12>>, <<9, 2>>, <<192>>, <<6, 171, 255>>, <<7, 1, 2, 3, 200>>,
     <<254, 0, 4>>, <<254, 2, 8, 0, 0>>}

RECURSIVE BufsOf(_)
BufsOf(n) ==
    IF n = 0 THEN {<<>>}
    ELSE BufsOf(n - 1) \cup {b \o it : b \in BufsOf(n - 1), it \in Items}

ParseBufs == BufsOf(MaxItems)

\* The bytes are in uint8_t buf[1024] (line 192): the array goes on after
\* the end bound whenever fewer than 1024 bytes were fetched.
Slack == <<0, 0, 0, 0, 0>>

ScanStart(buf, start, end) ==
    [st |-> "ready", buf |-> buf, end |-> end, start |-> start, p |-> start,
     parsed_usage_page |-> 0, parsed_usage |-> 0, n |-> 0, tag |-> 0, val |-> 0,
     reads |-> {}]

InitParse ==
    /\ hid_list = <<>>
    /\ usb = [open |-> {}, claimed |-> {}, misuse |-> FALSE, calls |-> <<>>]
    /\ pc = "idle"
    /\ fr = NoFrame
    /\ lastOp = NoOp
    /\ ret = 0
    /\ cand = NoCand
    /\ \E buf \in ParseBufs : \E start \in 0..Len(buf), end \in 0..Len(buf) :
          scan = ScanStart(buf \o Slack, start, end)

\* one call hid_parse_item(&val, &p, end) with p at the start cursor
ParseCall ==
    /\ scan.st = "ready"
    /\ LET it == hid_parse_item(scan.buf, scan.start, scan.end)
       IN  scan' = [scan EXCEPT !.st = "called", !.p = it.p, !.tag = it.tag, !.val = it.val,
                                !.reads = hid_parse_reads(scan.buf, scan.start, scan.end)]
    /\ UNCHANGED <<hid_list, usb, pc, fr, lastOp, ret, cand>>

\* the scanning loop: its test (289) and one iteration (290-295).  start
\* remembers the cursor before the iteration.  The loop is followed for at
\* most end + 1 iterations.
ScanIter ==
    /\ \/ scan.st = "ready" /\ scan.start = 0
       \/ scan.st = "loop"
    /\ scan.n <= scan.end
    /\ IF ~(scan.p < scan.end)
       THEN scan' = [scan EXCEPT !.st = "done"]
       ELSE LET s == ParseIter(scan.buf, scan.end, scan.p, scan.parsed_usage_page,
                               scan.parsed_usage)
            IN  scan' = [scan EXCEPT !.st = IF s.brk THEN "done" ELSE "loop",
                                     !.start = scan.p, !.p = s.p, !.tag = s.tag,
                                     !.parsed_usage_page = s.parsed_usage_page,
                                     !.parsed_usage = s.parsed_usage,
                                     !.n = @ + 1]
    /\ UNCHANGED <<hid_list, usb, pc, fr, lastOp, ret, cand>>

NextParse ==
    \/ ParseCall
    \/ ScanIter

SpecParse == InitParse /\ [][NextParse]_vars

----------------------------------------------------------------------------
(* Vocabulary of the properties *)

\* the items of a descriptor, decoded one after the other until decoding fails
RECURSIVE ItemsFrom(_, _)
ItemsFrom(buf, p) ==
    LET it == hid_parse_item(buf, p, Len(buf))
    IN  IF it.tag < 0 \/ it.p <= p THEN <<>> ELSE <<it>> \o ItemsFrom(buf, it.p)

\* the non-zero values a descriptor carries under a tag
NonZeroValues(buf, tag) ==
    LET its == ItemsFrom(buf, 0)
    IN  {its[n].val : n \in {m \in 1..Len(its) : its[m].tag = tag /\ its[m].val # 0}}

\* the value of the first item with that tag, 0 when there is none
FirstValue(buf, tag) ==
    LET its  == ItemsFrom(buf, 0)
        hits == {m \in 1..Len(its) : its[m].tag = tag}
    IN  IF hits = {} THEN 0 ELSE its[CHOOSE m \in hits : \A o \in hits : m <= o].val

\* a public call has just come back (or died inside the stack)
Back(op) == lastOp.op = op /\ pc \in {"returned", "crashed"}

InRange(num) == num >= 0 /\ num < Len(hid_list)

LiveHandles == {hid_list[p].handle : p \in {q \in 1..Len(hid_list) : hid_list[q].handle # NULL}}
LiveClaims ==
    {<<hid_list[p].handle, hid_list[p].iface>> :
        p \in {q \in 1..Len(hid_list) : hid_list[q].handle # NULL}}

CallsOf(kind) == {n \in 1..Len(usb.calls) : usb.calls[n].call = kind}

----------------------------------------------------------------------------
(* C1: after rawhid_open(max, ...) with max >= 1 has returned, the         *)
(* registry holds at most max entries and the returned count is at most    *)
(* max, whatever the stack listed and answered.                            *)
C1_AtMostMax ==
    (lastOp.op = "open" /\ pc = "returned" /\ lastOp.max >= 1)
        => (Len(hid_list) <= lastOp.max /\ ret <= lastOp.max)

(* C2: a candidate whose own report descriptor carries no non-zero value   *)
(* under tag 4, or none under tag 8, is never appended to the registry.    *)
C2_ZeroUsageNeverRegistered ==
    (cand.seen /\ cand.fetched
        /\ (NonZeroValues(cand.buf, 4) = {} \/ NonZeroValues(cand.buf, 8) = {}))
        => ~cand.committed

(* C3: once rawhid_close has closed the entry at an index, rawhid_recv and *)
(* rawhid_send on that index return -1 without handing a transfer to the   *)
(* stack, until the next rawhid_open.  (An entry's handle is NULL exactly  *)
(* when hid_close has closed it; rawhid_open empties the registry.)        *)
C3_ClosedEntryRefuses ==
    ((Back("recv") \/ Back("send")) /\ InRange(lastOp.num)
        /\ hid_list[lastOp.num + 1].handle = NULL)
        => (pc = "returned" /\ ret = -1 /\ usb.calls = <<>>)

(* C4: for an index out of the registry's range, negative or >= its size,  *)
(* rawhid_recv and rawhid_send return -1 without a transfer and            *)
(* rawhid_close makes no call to the stack.                                *)
C4_OutOfRangeNotFound ==
    ((Back("recv") \/ Back("send") \/ Back("close")) /\ ~InRange(lastOp.num))
        => (usb.calls = <<>> /\ (lastOp.op # "close" => ret = -1))

(* C5: the step in which rawhid_open is entered releases and closes every  *)
(* handle the registry held, empties the registry and opens no device,     *)
(* also when it returns at once (max < 1, no device list); from then on    *)
(* until it returns the registry only grows by entries the pass commits.   *)
C5_RediscoveryReplaces ==
    [][/\ (pc = "idle" /\ lastOp'.op = "open")
            => /\ hid_list' = <<>>
               /\ usb'.open \cap LiveHandles = {}
               /\ usb'.claimed \cap LiveClaims = {}
               /\ \A n \in 1..Len(usb'.calls) : usb'.calls[n].call \in {"release", "close"}
               /\ \A h \in LiveHandles :
                     Cardinality({n \in 1..Len(usb'.calls) :
                         usb'.calls[n] = [call |-> "close", handle |-> h]}) = 1
       /\ (pc \in {"dev", "iface", "alt"})
            => \/ hid_list' = hid_list
               \/ /\ cand'.seen /\ cand'.committed
                  /\ Len(hid_list') = Len(hid_list) + 1
                  /\ SubSeq(hid_list', 1, Len(hid_list)) = hid_list
                  /\ hid_list'[Len(hid_list')].handle \in usb'.open \ usb.open
      ]_vars

\* rawhid_open was entered with handles in the registry and goes on to enumerate
C5_Witness ==
    lastOp.op = "open" /\ pc = "dev" /\ fr.i = 0 /\ Len(fr.devs) > 0
        /\ CallsOf("close") # {} /\ hid_list = <<>> /\ usb.open = {}

(* C6: the stack never sees a release of an interface that is not claimed  *)
(* or a close of a handle that is not open (no second release or close),   *)
(* and the handles it holds open, and the interfaces claimed, are exactly  *)
(* those of the registry's entries that have not been closed: an entry     *)
(* that was closed or cleared has been released and closed once.           *)
C6_ClosedExactlyOnce ==
    /\ ~usb.misuse
    /\ usb.open = LiveHandles
    /\ usb.claimed = LiveClaims
    /\ \A p, q \in 1..Len(hid_list) :
          (p # q /\ hid_list[p].handle # NULL) => hid_list[p].handle # hid_list[q].handle
    /\ (Back("close") /\ usb.calls # <<>>)
          => /\ Len(usb.calls) = 2
             /\ usb.calls[1].call = "release"
             /\ usb.calls[1].handle # NULL
             /\ usb.calls[2] = [call |-> "close", handle |-> usb.calls[1].handle]

\* a second rawhid_close on an index already closed: nothing reaches the stack
C6_Witness ==
    Back("close") /\ InRange(lastOp.num) /\ hid_list[lastOp.num + 1].handle = NULL
        /\ usb.calls = <<>> /\ Len(hid_list) = 2 /\ Cardinality(usb.open) = 1

(* C7: every entry committed by rawhid_open(max, vid, pid, usage_page,     *)
(* usage) comes from a candidate whose own report descriptor has its       *)
(* first usage page equal to usage_page, when that filter is set, and its  *)
(* first usage equal to usage, when that filter is set.                    *)
C7_CommittedMatchesFilters ==
    (cand.seen /\ cand.committed)
        => /\ lastOp.usage_page > 0 => FirstValue(cand.buf, 4) = lastOp.usage_page
           /\ lastOp.usage > 0 => FirstValue(cand.buf, 8) = lastOp.usage

(* C8: rawhid_send on an open entry without an output endpoint hands the   *)
(* stack exactly one call, a control transfer with request type 0x21,      *)
(* request 0x09, value 0x0200 and the entry's interface number as index;   *)
(* on an open entry with an output endpoint exactly one call, an interrupt *)
(* transfer on that endpoint.  When the transfer comes back, the result is *)
(* the byte count on success and -1 on failure.                            *)
C8_SendTransfer ==
    Back("send") =>
        LET hid == get_hid(hid_list, lastOp.num)
        IN  (hid # NULL /\ hid_list[hid].open # 0) =>
                /\ Len(usb.calls) = 1
                /\ usb.calls[1].handle = hid_list[hid].handle
                /\ IF hid_list[hid].ep_out = 0
                   THEN /\ usb.calls[1].call = "control"
                        /\ usb.calls[1].reqtype = 33
                        /\ usb.calls[1].req = 9
                        /\ usb.calls[1].value = 512
                        /\ usb.calls[1].index = hid_list[hid].iface
                        /\ pc = "returned" =>
                              ret = IF usb.calls[1].r >= 0 THEN usb.calls[1].r ELSE -1
                   ELSE /\ usb.calls[1].call = "interrupt"
                        /\ usb.calls[1].ep = hid_list[hid].ep_out
                        /\ pc = "returned" =>
                              ret = IF usb.calls[1].r = 0 THEN usb.calls[1].transferred
                                    ELSE -1

\* a control transfer that moved a byte, and one that failed, have both been seen
C8_Witness ==
    Back("send") /\ Len(usb.calls) = 1 /\ usb.calls[1].call = "control"
        /\ usb.calls[1].r = 1 /\ ret = 1 /\ usb.calls[1].handle # NULL

(* C9: rawhid_recv on an open registered entry hands the stack exactly one *)
(* call, an interrupt transfer on the entry's input endpoint with the IN   *)
(* bit set; when it comes back, status 0 gives the transferred count, a    *)
(* timeout gives 0 and any other status gives -1.                          *)
C9_RecvTransfer ==
    Back("recv") =>
        LET hid == get_hid(hid_list, lastOp.num)
        IN  (hid # NULL /\ hid_list[hid].open # 0) =>
                /\ Len(usb.calls) = 1
                /\ usb.calls[1].call = "interrupt"
                /\ usb.calls[1].handle = hid_list[hid].handle
                /\ usb.calls[1].ep = hid_list[hid].ep_in + 128
                /\ hid_list[hid].ep_in \in 1..127
                /\ pc = "returned" =>
                      ret = CASE usb.calls[1].r = 0 -> usb.calls[1].transferred
                              [] usb.calls[1].r = -7 -> 0
                              [] OTHER -> -1

\* a receive that timed out on a live entry
C9_Witness ==
    Back("recv") /\ Len(usb.calls) = 1 /\ usb.calls[1].r = -7 /\ ret = 0
        /\ usb.calls[1].handle # NULL

(* C10: rawhid_scan with both filters wildcard returns the number of       *)
(* listed devices that report at least one configuration; with a vendor id *)
(* that no listed device has it returns 0; either way it makes no call     *)
(* that opens, claims or transfers, and leaves the registry and the        *)
(* stack's handles as they were.                                           *)
C10_ScanCounts ==
    [][lastOp'.op = "scan" =>
          LET devs == lastOp'.listing.devs
              all  == 1..Len(devs)
          IN  /\ hid_list' = hid_list
              /\ usb'.open = usb.open
              /\ usb'.claimed = usb.claimed
              /\ usb'.calls = <<>>
              /\ (lastOp'.vid <= 0 /\ lastOp'.pid <= 0)
                    => ret' = Cardinality({n \in all :
                                  Device(devs[n]).descOK
                                  /\ Device(devs[n]).bNumConfigurations >= 1})
              /\ (lastOp'.vid > 0 /\ \A n \in all : Device(devs[n]).idVendor # lastOp'.vid)
                    => ret' = 0
      ]_vars

\* a wildcard scan of two devices, one of them without configuration, with
\* entries in the registry
C10_Witness ==
    lastOp.op = "scan" /\ pc = "returned" /\ lastOp.vid <= 0 /\ lastOp.pid <= 0
        /\ Len(lastOp.listing.devs) = 2 /\ ret = 1 /\ Len(hid_list) > 0

----------------------------------------------------------------------------
(* The item decoder: what one call returns                                 *)

\* a call of hid_parse_item has returned, on a long or on a short item
Called == scan.st = "called"
CalledLong == Called /\ scan.start < scan.end /\ Rd(scan.buf, scan.start) = 254
CalledShort == Called /\ scan.start < scan.end /\ Rd(scan.buf, scan.start) # 254

(* C11: for every long item (first byte 0xFE) that hid_parse_item decodes  *)
(* successfully, the cursor advances by exactly 5 + byte[1], the returned  *)
(* tag is byte[2] and the value is 0.                                      *)
C11_LongItem ==
    (CalledLong /\ scan.tag >= 0)
        => /\ scan.p = scan.start + 5 + Rd(scan.buf, scan.start + 1)
           /\ scan.tag = Rd(scan.buf, scan.start + 2)
           /\ scan.val = 0

\* n payload bytes from offset q on, least significant first, as the same
\* 32-bit pattern ShortVal uses
RECURSIVE LittleEndian(_, _, _, _)
LittleEndian(buf, q, n, i) ==
    IF i = n THEN 0
    ELSE LET byte == IF i = 3 /\ Rd(buf, q + i) >= 128 THEN Rd(buf, q + i) - 256
                                                       ELSE Rd(buf, q + i)
         IN  byte * (CASE i = 0 -> 1 [] i = 1 -> 256 [] i = 2 -> 65536 [] i = 3 -> 16777216)
             + LittleEndian(buf, q, n, i + 1)

\* payload length of the short item whose prefix byte is b
PayloadLen(b) == CASE b % 4 = 0 -> 0 [] b % 4 = 1 -> 1 [] b % 4 = 2 -> 2 [] b % 4 = 3 -> 4

(* C12: every well-formed short item (prefix byte b # 0xFE whose payload   *)
(* bytes all lie before the end bound, an item ending exactly at the end   *)
(* bound included) is decoded: the call succeeds, the cursor advances by   *)
(* 1 + table[b & 3], the tag is b & 0xFC and the value is the payload read *)
(* little-endian and zero-extended.                                        *)
C12_ShortItem ==
    LET b == Rd(scan.buf, scan.start)
    IN  (CalledShort /\ scan.start + PayloadLen(b) + 1 <= scan.end)
            => /\ scan.tag = (b \div 4) * 4
               /\ scan.p = scan.start + 1 + PayloadLen(b)
               /\ scan.val = LittleEndian(scan.buf, scan.start + 1, PayloadLen(b), 0)

----------------------------------------------------------------------------
(* The scanning loop over one descriptor                                   *)

\* the step is an iteration of the scanning loop that made a call
Iterated == scan.st \in {"ready", "loop"} /\ scan'.st \in {"loop", "done"} /\ scan'.n = scan.n + 1

(* C14: while one descriptor is scanned, parsed_usage_page is the value of *)
(* the first tag-4 item and parsed_usage the value of the first tag-8 item *)
(* of that descriptor: an item with another tag leaves both alone, a value *)
(* already found (non-zero) is never replaced by a later tag-4 or tag-8    *)
(* item, and the scan stops exactly when both are found or decoding fails. *)
C14_FirstValues ==
    [][Iterated =>
        /\ scan.parsed_usage_page # 0 => scan'.parsed_usage_page = scan.parsed_usage_page
        /\ scan.parsed_usage # 0 => scan'.parsed_usage = scan.parsed_usage
        /\ scan'.tag # 4 => scan'.parsed_usage_page = scan.parsed_usage_page
        /\ scan'.tag # 8 => scan'.parsed_usage = scan.parsed_usage
        /\ scan'.st = "done"
              <=> (scan'.tag < 0 \/ (scan'.parsed_usage_page # 0 /\ scan'.parsed_usage # 0))
      ]_vars

----------------------------------------------------------------------------
(* rawhid_open: what a pass acquires and gives back                        *)

\* the k loop has just dealt with a candidate
Examined == pc = "alt" /\ cand.seen /\ usb.calls # <<>>

\* positions of the step's calls that acquired something
Opened == {n \in CallsOf("open") : usb.calls[n].handle # NULL}
Claimed == {n \in CallsOf("claim") : usb.calls[n].ok}

Holders(h) == {p \in 1..Len(hid_list) : hid_list[p].handle = h}

(* C15: on every way out of a candidate, and so when rawhid_open returns,  *)
(* what was acquired is paired with its release: a handle opened for the   *)
(* candidate is owned by exactly one registry entry, or has been closed    *)
(* (once, and is in no entry); an interface claimed for it is held by that *)
(* entry, or was released before the handle was closed; and no interface   *)
(* is released that was not claimed before.                                *)
C15_AcquireReleasePaired ==
    /\ Examined =>
        /\ \A n \in Opened :
              LET h      == usb.calls[n].handle
                  closes == {m \in CallsOf("close") : usb.calls[m].handle = h}
              IN  IF cand.committed
                  THEN Cardinality(Holders(h)) = 1 /\ h \in usb.open /\ closes = {}
                  ELSE /\ Holders(h) = {} /\ h \notin usb.open
                       /\ Cardinality(closes) = 1 /\ \A m \in closes : m > n
        /\ \A n \in Claimed :
              LET h   == usb.calls[n].handle
                  j   == usb.calls[n].iface
                  rel == {m \in CallsOf("release") :
                             usb.calls[m].handle = h /\ usb.calls[m].iface = j}
              IN  IF cand.committed
                  THEN /\ rel = {} /\ <<h, j>> \in usb.claimed
                       /\ \A p \in Holders(h) : hid_list[p].iface = j
                  ELSE /\ Cardinality(rel) = 1 /\ <<h, j>> \notin usb.claimed
                       /\ \A m \in rel : m > n
                       /\ \A m \in rel : \E c \in CallsOf("close") :
                              c > m /\ usb.calls[c].handle = h
        /\ \A m \in CallsOf("release") :
              \E n \in Claimed : n < m /\ usb.calls[n].handle = usb.calls[m].handle
                                      /\ usb.calls[n].iface = usb.calls[m].iface
        /\ CallsOf("close") # {} => Opened # {}
    /\ (pc \in {"dev", "iface", "alt", "returned"} /\ lastOp.op = "open")
          => (usb.open = LiveHandles /\ usb.claimed = LiveClaims /\ ~usb.misuse)

\* a candidate given up after its interface was claimed, in a pass that has
\* already committed an entry: released, then closed, the entry untouched
C15_Witness ==
    /\ Examined /\ ~cand.committed /\ Claimed # {}
    /\ CallsOf("release") # {} /\ CallsOf("close") # {}
    /\ Len(hid_list) >= 1 /\ usb.open = LiveHandles /\ usb.open # {}

\* what becomes of the examined candidate when it is the first one of a pass:
\* its own stack calls, its own descriptor scanned from 0, 0, its own malloc
CommitsAsFirst ==
    LET ps == ParseLoop(cand.buf, Len(cand.buf), 0, 0, 0)
    IN  /\ cand.fetched
        /\ ~UsageRejected(ps.parsed_usage_page, ps.parsed_usage,
                          lastOp.usage_page, lastOp.usage)
        /\ cand.malloc

(* C16: a candidate that fails affects only itself: the pass goes on with  *)
(* the next candidate, the registry keeps exactly the entries it had, and  *)
(* a later candidate is registered or not as it would be had the failed    *)
(* candidate not been enumerated.  Taking the failed candidates away one   *)
(* after the other, a candidate before which every candidate failed is     *)
(* registered exactly when it would be as the first candidate of the pass. *)
C16_FailureIsLocal ==
    /\ (Examined /\ ~cand.committed)
          => (\A p \in 1..Len(hid_list) : hid_list[p].handle \in usb.open)
    /\ (Examined /\ Len(hid_list) = (IF cand.committed THEN 1 ELSE 0))
          => (cand.committed <=> CommitsAsFirst)

(* C17: when a pass has returned, the registry holds at most one entry per *)
(* claimed interface: no two entries are on the same interface number of   *)
(* the same device, also when an interface lists several alternate         *)
(* settings that qualify.                                                  *)
C17_OneEntryPerInterface ==
    (lastOp.op = "open" /\ pc = "returned" /\ Len(fr.owners) = Len(hid_list))
        => \A p, q \in 1..Len(hid_list) :
              (p # q /\ fr.owners[p] = fr.owners[q]) => hid_list[p].iface # hid_list[q].iface

----------------------------------------------------------------------------
(* rawhid_close: what it leaves alone                                      *)

(* C18: rawhid_close(i) changes nothing but entry i.  The registry keeps   *)
(* the same entries in the same order; every index j other than i still    *)
(* resolves to the same entry, with the same open state, handle, interface *)
(* number and endpoints; and index i still resolves to its entry, now      *)
(* closed, with its interface number and endpoints, not renumbered.        *)
C18_CloseIsLocal ==
    [][(pc = "idle" /\ lastOp'.op = "close") =>
          LET i == lastOp'.num
          IN  /\ Len(hid_list') = Len(hid_list)
              /\ \A j \in Nums : get_hid(hid_list', j) = get_hid(hid_list, j)
              /\ \A j \in 0..(Len(hid_list) - 1) :
                    j # i => hid_list'[j + 1] = hid_list[j + 1]
              /\ InRange(i) =>
                    /\ hid_list'[i + 1].handle = NULL
                    /\ hid_list'[i + 1].iface = hid_list[i + 1].iface
                    /\ hid_list'[i + 1].ep_in = hid_list[i + 1].ep_in
                    /\ hid_list'[i + 1].ep_out = hid_list[i + 1].ep_out
      ]_vars

----------------------------------------------------------------------------
(* The scanning loop ends                                                  *)

\* the scanning loop has made at least one call
Scanning == scan.st \in {"loop", "done"} /\ scan.n > 0

(* C19: the scanning loop terminates for every content and every length of *)
(* the fetched bytes.  Every successful call of hid_parse_item moves the    *)
(* cursor forward by at least one byte and a failed call ends the loop, so *)
(* the loop makes at most len calls: it is never still running after them. *)
C19_ScanTerminates ==
    /\ scan.st \in {"ready", "loop", "done"} => scan.n <= scan.end
    /\ Scanning =>
          /\ scan.tag >= 0 => (scan.p >= scan.start + 1 /\ scan.n <= scan.p)
          /\ scan.tag < 0 => (scan.st = "done" /\ scan.p = scan.start)
          /\ scan.st = "loop" => scan.n < scan.end

\* a loop that made as many calls as the descriptor has bytes, and ended
C19_Witness ==
    Scanning /\ scan.st = "done" /\ scan.n = scan.end /\ scan.end >= MaxItems

(* C20: after every successful call of hid_parse_item, on a short or on a  *)
(* long item, the cursor is at most the end bound; after every failed call *)
(* the cursor is where it was.                                             *)
C20_CursorWithinEnd ==
    (Called \/ Scanning)
        => /\ scan.tag >= 0 => scan.p <= scan.end
           /\ scan.tag < 0 => scan.p = scan.start

====
